---- MODULE Spec2Model ----
(***************************************************************************)
(* Request execution engine of the TitanGPT python client:                 *)
(*   - AsyncClient._request          (titangpt/async_client.py)            *)
(*   - TitanGPTClient._request       (titangpt/client.py), whose retries   *)
(*     are those of the urllib3 Retry strategy mounted on its session      *)
(*   - AsyncClient.chat_completion_stream, the stream decoder              *)
(* Spec       : one logical call of either client against a server whose   *)
(*              per-attempt outcome is chosen freely.                      *)
(* SpecStream : one streaming call over a finite body of lines.            *)
(* SpecPure   : the functions of one request applied to drawn inputs: the  *)
(*              URL, the timeout, the returned value, the error message.   *)
(* SpecLife   : the life of one client: construction, calls (concurrent    *)
(*              ones for the asynchronous client), close, the scoped form  *)
(*              and the module-level set_api_key.                          *)
(***************************************************************************)
EXTENDS Integers, Sequences, FiniteSets, TLC

\* max_retries ranges over 0..MaxRetriesBound
MaxRetriesBound == 4
\* a streamed body holds at most MaxLines lines
MaxLines == 3
\* SpecLife: close() is called at most MaxCloses times
MaxCloses == 2
\* SpecLife: max_retries ranges over 0..LifeRetries
LifeRetries == 2
\* SpecFleet: at most MaxSessions session objects are created
MaxSessions == 3
\* SpecAsyncFair: max_retries ranges over 0..TermRetries
TermRetries == 3

VARIABLES
    variant,      \* "none" | "async" | "sync": the client executing the call
    method,       \* HTTP method of the call
    max_retries,  \* constructor argument max_retries
    session,      \* AsyncClient._session / TitanGPTClient.session: "none" | "open" | "closed"
    pc,           \* "idle" | "sending" | "sleeping" | "returned" | "raised"
    attempt,      \* loop variable of `for attempt in range(self.max_retries)`
    total,        \* urllib3 Retry.total of the blocking client: retries left
    sent,         \* number of requests put on the wire by this call
    outcomes,     \* outcome of every attempt so far, in order
    delays,       \* arguments of asyncio.sleep so far, in order
    result,       \* what the call handed to its caller
    st_pc,        \* stream: "idle" | "reading" | "ended" | "raised"
    st_body,      \* stream: the lines of the response body
    st_idx,       \* stream: number of lines read from the body
    st_yielded,   \* stream: content deltas yielded so far
    st_exc,       \* stream: exception that ended the generator, "" if none
    init_args,    \* arguments and environment of the constructor call
    constructed,  \* "no" | "ok" | "failed": whether the client object exists
    api_key,      \* self.api_key
    session_auth, \* Authorization of TitanGPTClient.session.headers
    default_client, \* whether titangpt._client is this client
    rotation,     \* the last set_api_key on the existing default client
    life_exc,     \* exception of the last constructor or close call, "" if none
    created,      \* number of sessions the client has created
    closes,       \* number of close() calls, those of the scoped form included
    scope,        \* scoped form: "out" | "in" | "exited"
    exit_path,    \* how the body of the scoped form ended
    as_target,    \* what __enter__ / __aenter__ returned
    c_pc,         \* per call: "idle" | "sending" | "awaiting" | "sleeping" | "returned" | "raised"
    c_sid,        \* per call: the session it holds (its number of creation)
    c_hdr,        \* per call: the Authorization the caller passed in headers
    c_auth,       \* per call: the Authorization of the headers built by the call
    c_attempt,    \* per call: loop variable, or retries left for the blocking client
    c_res,        \* per call: what it handed to its caller
    c_log,        \* per call: its requests, their outcomes and its sleeps, in order
    wire,         \* the last request put on the wire: session, its state, Authorization
    pure_in,      \* SpecPure: the client's configuration and the arguments of the call
    pure_fn,      \* SpecPure: the function applied to them, "" before
    pure_out,     \* SpecPure: what it gave
    f_client,     \* SpecFleet: per client instance, its kind, configuration, session
    f_heap,       \* SpecFleet: the session objects created so far and their states
    f_actor,      \* SpecFleet: the instance the last operation was called on
    m_client,     \* SpecModule: the module's _client, id 0 while it is None
    m_made,       \* SpecModule: how many TitanGPTClient instances were constructed
    m_call        \* SpecModule: the last call of get_client / set_api_key and its end

execVars == <<variant, method, max_retries, session, pc, attempt, total, sent,
              outcomes, delays, result>>
streamVars == <<st_pc, st_body, st_idx, st_yielded, st_exc>>
lifeVars == <<init_args, constructed, api_key, session_auth, default_client,
              rotation, life_exc, created, closes, scope, exit_path, as_target,
              c_pc, c_sid, c_hdr, c_auth, c_attempt, c_res, c_log, wire>>
pureVars == <<pure_in, pure_fn, pure_out>>
fleetVars == <<f_client, f_heap, f_actor>>
moduleVars == <<m_client, m_made, m_call>>
vars == <<execVars, streamVars, lifeVars, pureVars, fleetVars, moduleVars>>

(***************************************************************************)
(* JSON values, as python objects                                          *)
(***************************************************************************)
JNull == [t |-> "null"]
JNum(n) == [t |-> "num", v |-> n]
JStr(s) == [t |-> "str", v |-> s]
JList(q) == [t |-> "list", v |-> q]
JObj(f) == [t |-> "obj", v |-> f]
EmptyDict == JObj(<<>>)

\* Response bodies as text.
BodyObject == "{\"id\": 1}"
BodyEmpty == ""
BodyError == "{\"error\": {\"message\": \"bad\"}}"
BodyNested == "{\"a\": {\"b\": 1}, \"c\": null}"
BodyMessage == "{\"message\": \"no such model\"}"
BodyDetail == "{\"detail\": \"not allowed\"}"
BodyText == "Bad Gateway"

\* json.loads on a response body; an empty body is no JSON document.
ParseBody(text) ==
    CASE text = BodyObject -> JObj([k \in {"id"} |-> JNum(1)])
      [] text = BodyError -> JObj([k \in {"error"} |->
                                  JObj([m \in {"message"} |-> JStr("bad")])])
      [] text = BodyNested -> JObj([k \in {"a", "c"} |->
                                   IF k = "a" THEN JObj([m \in {"b"} |-> JNum(1)])
                                              ELSE JNull])
      [] text = BodyMessage -> JObj([k \in {"message"} |-> JStr("no such model")])
      [] text = BodyDetail -> JObj([k \in {"detail"} |-> JStr("not allowed")])
      [] OTHER -> [t |-> "JSONDecodeError"]

\* aiohttp ClientResponse.json(): None for an empty body, else the parsed document.
AiohttpJson(text) == IF text = BodyEmpty THEN JNull ELSE ParseBody(text)

(***************************************************************************)
(* Outcomes of one attempt                                                 *)
(***************************************************************************)
Http(s, b) == [kind |-> "http", status |-> s, body |-> b]
Timeout == [kind |-> "timeout", status |-> 0, body |-> BodyEmpty]
ConnectionFailure == [kind |-> "connection", status |-> 0, body |-> BodyEmpty]

\* A response is its status and its body; none carries a Retry-After header.
ErrorStatuses == {304, 400, 401, 403, 404, 422, 429, 500, 501, 502, 503, 504}
Outcomes ==
    {Http(200, BodyObject), Http(200, BodyEmpty), Http(201, BodyObject),
     Http(204, BodyEmpty)}
    \cup {Http(s, BodyError) : s \in ErrorStatuses}
    \cup {Timeout, ConnectionFailure}

Methods == {"GET", "POST", "PUT", "DELETE"}

\* What a call hands to its caller.
NoResult == [kind |-> "none", exc |-> "", status |-> 0, value |-> JNull]
Return(v) == [kind |-> "return", exc |-> "", status |-> 0, value |-> v]
Raise(e, s) == [kind |-> "raise", exc |-> e, status |-> s, value |-> JNull]

RECURSIVE Pow2(_)
Pow2(n) == IF n = 0 THEN 1 ELSE 2 * Pow2(n - 1)

(***************************************************************************)
(* AsyncClient                                                             *)
(***************************************************************************)
\* A session created by every call that ensures one.
NeedsSessionAlways(s) == s \in {"none", "closed", "open"}

\* `if self._session is None or self._session.closed` of _ensure_session.
NeedsSession(s) == s = "none" \/ s = "closed"

\* A closed session that is not replaced.
EnsureSessionNoReopen(s) == IF s = "none" THEN "open" ELSE s

\* _ensure_session: a new session when there is none or it is closed.
EnsureSession(s) == IF s = "none" \/ s = "closed" THEN "open" ELSE s

\* A retry branch that is also taken on the last pass of the loop.
AsyncAttemptsRemainOneMore(a, n) == a < n

\* `if attempt < self.max_retries - 1` of the three retry branches.
AsyncAttemptsRemain(a, n) == a < n - 1

\* A backoff whose exponent is off by one.
AsyncBackoffOffByOne(a) == Pow2(a + 1)

\* argument of asyncio.sleep before the next attempt
AsyncBackoff(a) == Pow2(a)

\* The status branches of one attempt that do not retry: 200 returns the
\* parsed body, 401 raises ValueError, every other status a RuntimeError.
AsyncTerminal(o) ==
    CASE o.kind = "timeout" -> Raise("builtins.TimeoutError", 0)
      [] o.kind = "connection" -> Raise("aiohttp.ClientError", 0)
      [] o.status = 200 -> Return(AiohttpJson(o.body))
      [] o.status = 401 -> Raise("ValueError", 401)
      [] OTHER -> Raise("RuntimeError", o.status)

\* A retry branch taken for every error status, 4xx included.
AsyncRetryableAnyError(o) ==
    \/ o.kind = "timeout"
    \/ o.kind = "http" /\ o.status >= 400

\* A retry branch taken for every status, success included.
AsyncRetryableAnyStatus(o) ==
    \/ o.kind = "timeout"
    \/ o.kind = "http" /\ o.status >= 200

\* The outcomes whose branch holds a retry: 429, status >= 500, asyncio.TimeoutError.
AsyncRetryable(o) ==
    \/ o.kind = "timeout"
    \/ o.kind = "http" /\ (o.status = 429 \/ o.status >= 500)

\* _request up to the first attempt: the session is ensured, the loop entered.
\* With max_retries = 0 the loop body never runs and the coroutine returns None.
AsyncRequestBegin ==
    /\ pc = "idle"
    /\ variant' = "async"
    /\ \E m \in Methods : method' = m
    /\ session' = EnsureSession(session)
    /\ attempt' = 0
    /\ IF max_retries = 0
          THEN pc' = "returned" /\ result' = Return(JNull)
          ELSE pc' = "sending" /\ result' = result
    /\ UNCHANGED <<max_retries, total, sent, outcomes, delays, streamVars, lifeVars, pureVars, fleetVars, moduleVars>>

\* A loop body that closes the session when it raises.
AsyncAttemptClosing ==
    /\ variant = "async"
    /\ pc = "sending"
    /\ \E o \in Outcomes :
         /\ sent' = sent + 1
         /\ outcomes' = Append(outcomes, o)
         /\ IF AsyncRetryable(o) /\ AsyncAttemptsRemain(attempt, max_retries)
               THEN /\ pc' = "sleeping"
                    /\ delays' = Append(delays, AsyncBackoff(attempt))
                    /\ result' = result
                    /\ session' = session
               ELSE /\ pc' = IF AsyncTerminal(o).kind = "return"
                                THEN "returned" ELSE "raised"
                    /\ result' = AsyncTerminal(o)
                    /\ delays' = delays
                    /\ session' = IF AsyncTerminal(o).kind = "return"
                                     THEN session ELSE "closed"
    /\ UNCHANGED <<variant, method, max_retries, attempt, total, streamVars, lifeVars, pureVars, fleetVars, moduleVars>>

\* One pass of the loop body: the request is sent and its outcome handled.
AsyncAttempt ==
    /\ variant = "async"
    /\ pc = "sending"
    /\ \E o \in Outcomes :
         /\ sent' = sent + 1
         /\ outcomes' = Append(outcomes, o)
         /\ IF AsyncRetryable(o) /\ AsyncAttemptsRemain(attempt, max_retries)
               THEN /\ pc' = "sleeping"
                    /\ delays' = Append(delays, AsyncBackoff(attempt))
                    /\ result' = result
               ELSE /\ pc' = IF AsyncTerminal(o).kind = "return"
                                THEN "returned" ELSE "raised"
                    /\ result' = AsyncTerminal(o)
                    /\ delays' = delays
    /\ UNCHANGED <<variant, method, max_retries, session, attempt, total, streamVars, lifeVars, pureVars, fleetVars, moduleVars>>

\* asyncio.sleep returns; `continue` takes the loop to the next attempt.
AsyncWake ==
    /\ variant = "async"
    /\ pc = "sleeping"
    /\ attempt' = attempt + 1
    /\ pc' = "sending"
    /\ UNCHANGED <<variant, method, max_retries, session, total, sent, outcomes,
                   delays, result, streamVars, lifeVars, pureVars, fleetVars, moduleVars>>

(***************************************************************************)
(* TitanGPTClient                                                          *)
(***************************************************************************)
StatusForcelist == {429, 500, 502, 503, 504}
AllowedMethods == {"GET", "POST", "PUT", "DELETE"}

\* Retry(total, status_forcelist, allowed_methods): what the mounted adapter
\* re-sends instead of handing to the caller.
SyncRetryable(m, o) ==
    \/ o.kind = "connection"
    \/ o.kind = "timeout" /\ m \in AllowedMethods
    \/ o.kind = "http" /\ o.status \in StatusForcelist /\ m \in AllowedMethods

\* The adapter gives up: the retry count is spent.
SyncExhausted(o) ==
    IF o.kind = "http"
       THEN Raise("requests.RetryError", o.status)
       ELSE Raise("requests.ConnectionError", 0)

\* _handle_response: raise_for_status, then the body parsed, {} when empty.
HandleResponse(o) ==
    IF o.status >= 400
       THEN Raise("requests.HTTPError", o.status)
       ELSE Return(IF o.body # BodyEmpty THEN ParseBody(o.body) ELSE EmptyDict)

\* An outcome the adapter does not retry.
SyncTerminal(o) ==
    IF o.kind = "http" THEN HandleResponse(o) ELSE SyncExhausted(o)

\* _request up to session.request: the session exists since construction.
SyncRequestBegin ==
    /\ pc = "idle"
    /\ variant' = "sync"
    /\ \E m \in Methods : method' = m
    /\ session' = "open"
    /\ total' = max_retries
    /\ pc' = "sending"
    /\ UNCHANGED <<max_retries, attempt, sent, outcomes, delays, result, streamVars, lifeVars, pureVars, fleetVars, moduleVars>>

\* One send by the adapter inside session.request.
SyncAttempt ==
    /\ variant = "sync"
    /\ pc = "sending"
    /\ \E o \in Outcomes :
         /\ sent' = sent + 1
         /\ outcomes' = Append(outcomes, o)
         /\ IF SyncRetryable(method, o)
               THEN IF total - 1 < 0
                       THEN /\ pc' = "raised"
                            /\ result' = SyncExhausted(o)
                            /\ total' = total - 1
                       ELSE /\ pc' = "sending"
                            /\ result' = result
                            /\ total' = total - 1
               ELSE /\ pc' = IF SyncTerminal(o).kind = "return"
                                THEN "returned" ELSE "raised"
                    /\ result' = SyncTerminal(o)
                    /\ total' = total
    /\ UNCHANGED <<variant, method, max_retries, session, attempt, delays, streamVars, lifeVars, pureVars, fleetVars, moduleVars>>

(***************************************************************************)
(* AsyncClient.chat_completion_stream                                      *)
(***************************************************************************)
\* A line of the body is a sequence of characters; the JSON payload of a line
\* is written as one token, as are a line break and an undecodable byte.
Prefix == <<"d", "a", "t", "a", ":", " ">>
PrefixNoSpace == <<"d", "a", "t", "a", ":">>
Newline == "\n"
Space == " "
BadByte == "\\xff"
DoneToken == "[DONE]"

TokHi == "{\"choices\":[{\"delta\":{\"content\":\"Hi\"}}]}"
TokYo == "{\"choices\":[{\"delta\":{\"content\":\"Yo\"}},{\"delta\":{\"content\":\"No\"}}]}"
TokRole == "{\"choices\":[{\"delta\":{\"role\":\"assistant\"}}]}"
TokFinish == "{\"choices\":[{\"finish_reason\":\"stop\"}]}"
TokNoChoices == "{\"id\":\"c1\"}"
TokEmptyChoices == "{\"choices\":[]}"
TokNullDelta == "{\"choices\":[{\"delta\":null}]}"
TokNumber == "5"
TokMalformed == "{not json"

Delta(k, s) == JObj([d \in {"delta"} |-> JObj([c \in {k} |-> JStr(s)])])

\* json.loads on the payload of a frame.
JsonLoads(tok) ==
    CASE tok = TokHi -> JObj([k \in {"choices"} |-> JList(<<Delta("content", "Hi")>>)])
      [] tok = TokYo -> JObj([k \in {"choices"} |->
                              JList(<<Delta("content", "Yo"), Delta("content", "No")>>)])
      [] tok = TokRole -> JObj([k \in {"choices"} |->
                                JList(<<Delta("role", "assistant")>>)])
      [] tok = TokFinish -> JObj([k \in {"choices"} |->
                                  JList(<<JObj([f \in {"finish_reason"} |-> JStr("stop")])>>)])
      [] tok = TokNoChoices -> JObj([k \in {"id"} |-> JStr("c1")])
      [] tok = TokEmptyChoices -> JObj([k \in {"choices"} |-> JList(<<>>)])
      [] tok = TokNullDelta -> JObj([k \in {"choices"} |->
                                     JList(<<JObj([d \in {"delta"} |-> JNull])>>)])
      [] tok = TokNumber -> JNum(5)
      [] OTHER -> [t |-> "JSONDecodeError"]

Frame(tok) == Prefix \o <<tok, Newline>>

StreamLines ==
    {Frame(TokHi), Frame(TokYo), Frame(DoneToken), Frame(TokMalformed),
     Frame(TokRole), Frame(TokFinish), Frame(TokNoChoices),
     Frame(TokEmptyChoices), Frame(TokNullDelta), Frame(TokNumber),
     <<Space>> \o Frame(TokHi),
     PrefixNoSpace \o <<TokHi, Newline>>,
     <<TokHi, Newline>>,
     <<Newline>>,
     <<BadByte, Newline>>}

RECURSIVE Bodies(_)
Bodies(n) ==
    IF n = 0 THEN {<<>>}
    ELSE Bodies(n - 1) \cup
         {Append(b, l) : b \in {c \in Bodies(n - 1) : Len(c) = n - 1}, l \in StreamLines}

IsSpace(c) == c = Space \/ c = Newline

\* str.strip()
RECURSIVE Strip(_)
Strip(l) ==
    IF l = <<>> THEN l
    ELSE IF IsSpace(Head(l)) THEN Strip(Tail(l))
    ELSE IF IsSpace(l[Len(l)]) THEN Strip(SubSeq(l, 1, Len(l) - 1))
    ELSE l

\* line.decode("utf-8") fails on a byte that is no UTF-8
Decodable(l) == \A i \in 1..Len(l) : l[i] # BadByte

\* decoded_line.startswith("data: ")
StartsWithPrefix(l) == Len(l) >= Len(Prefix) /\ SubSeq(l, 1, Len(Prefix)) = Prefix

\* decoded_line[6:]
Payload(l) == SubSeq(l, Len(Prefix) + 1, Len(l))

\* json.loads(data): one JSON document, white space around it allowed
LoadsData(d) ==
    IF Len(Strip(d)) = 1 THEN JsonLoads(Strip(d)[1]) ELSE [t |-> "JSONDecodeError"]

Skip == [kind |-> "skip", v |-> JNull, exc |-> ""]
Yield(x) == [kind |-> "yield", v |-> x, exc |-> ""]
Abort(e) == [kind |-> "raise", v |-> JNull, exc |-> e]

HasKey(o, k) == o.t = "obj" /\ k \in DOMAIN o.v

\* `"content" in delta` and `yield delta["content"]`
FromDelta(delta) ==
    CASE delta.t = "obj" ->
            IF HasKey(delta, "content") THEN Yield(delta.v["content"]) ELSE Skip
      [] delta.t \in {"null", "num"} -> Abort("TypeError")
      [] OTHER -> Skip

\* `chunk["choices"][0].get("delta", {})`
FromChoices(choices) ==
    CASE choices.t = "list" ->
            IF Len(choices.v) = 0 THEN Abort("IndexError")
            ELSE IF choices.v[1].t # "obj" THEN Abort("AttributeError")
            ELSE IF HasKey(choices.v[1], "delta")
                    THEN FromDelta(choices.v[1].v["delta"])
                    ELSE FromDelta(EmptyDict)
      [] choices.t = "obj" -> Abort("KeyError")
      [] choices.t = "str" -> IF choices.v = "" THEN Abort("IndexError")
                                                ELSE Abort("AttributeError")
      [] OTHER -> Abort("TypeError")

\* `if "choices" in chunk:` and what follows, for a parsed chunk
FromChunk(chunk) ==
    CASE chunk.t = "obj" ->
            IF HasKey(chunk, "choices") THEN FromChoices(chunk.v["choices"]) ELSE Skip
      [] chunk.t \in {"null", "num"} -> Abort("TypeError")
      [] OTHER -> Skip

\* A decoder without the `except json.JSONDecodeError` clause.
DecodeDataNoCatch(d) ==
    IF d = <<DoneToken>> THEN Skip
    ELSE IF LoadsData(d).t = "JSONDecodeError" THEN Abort("JSONDecodeError")
    ELSE FromChunk(LoadsData(d))

\* `if data != "[DONE]":` the payload is decoded, else the line is passed over
DecodeData(d) ==
    IF d = <<DoneToken>> THEN Skip
    ELSE IF LoadsData(d).t = "JSONDecodeError" THEN Skip
    ELSE FromChunk(LoadsData(d))

\* The body of `async for line in response.content` for one line.
DecodeLine(l) ==
    IF ~Decodable(l) THEN Abort("UnicodeDecodeError")
    ELSE IF StartsWithPrefix(Strip(l)) THEN DecodeData(Payload(Strip(l)))
    ELSE Skip

\* What session.post can end in; the body of a streamed response is its lines.
StreamOutcomes ==
    {Http(s, BodyEmpty) : s \in {200, 201, 204} \cup ErrorStatuses}
    \cup {Timeout, ConnectionFailure}

\* A stream request that is sent again after a 429, a 5xx or a timeout.
StreamOpenRetrying ==
    /\ st_pc = "idle"
    /\ pc = "idle"
    /\ sent <= max_retries
    /\ variant' = "async"
    /\ method' = "POST"
    /\ session' = EnsureSession(session)
    /\ sent' = sent + 1
    /\ \E o \in StreamOutcomes :
         /\ outcomes' = <<o>>
         /\ st_body' = <<>>
         /\ IF AsyncRetryable(o) /\ sent < max_retries
               THEN st_pc' = "idle" /\ st_exc' = ""
               ELSE st_pc' = "raised" /\ st_exc' = "RuntimeError"
    /\ UNCHANGED <<max_retries, pc, attempt, total, delays, result, st_idx, st_yielded, lifeVars, pureVars, fleetVars, moduleVars>>

\* session.post and the status check: the stream starts on status 200 only.
StreamOpen ==
    /\ st_pc = "idle"
    /\ pc = "idle"
    /\ variant' = "async"
    /\ method' = "POST"
    /\ session' = EnsureSession(session)
    /\ sent' = sent + 1
    /\ \E o \in StreamOutcomes :
         /\ outcomes' = Append(outcomes, o)
         /\ CASE o.kind = "timeout" ->
                   st_pc' = "raised" /\ st_exc' = "asyncio.TimeoutError" /\ st_body' = <<>>
              [] o.kind = "connection" ->
                   st_pc' = "raised" /\ st_exc' = "aiohttp.ClientError" /\ st_body' = <<>>
              [] o.kind = "http" /\ o.status # 200 ->
                   st_pc' = "raised" /\ st_exc' = "RuntimeError" /\ st_body' = <<>>
              [] OTHER ->
                   st_pc' = "reading" /\ st_exc' = "" /\ st_body' \in Bodies(MaxLines)
    /\ UNCHANGED <<max_retries, pc, attempt, total, delays, result, st_idx, st_yielded, lifeVars, pureVars, fleetVars, moduleVars>>

\* The next line of the body is read and decoded.
StreamReadLine ==
    /\ st_pc = "reading"
    /\ st_idx < Len(st_body)
    /\ st_idx' = st_idx + 1
    /\ LET r == DecodeLine(st_body[st_idx + 1])
       IN  /\ st_yielded' = IF r.kind = "yield" THEN Append(st_yielded, r.v)
                                                ELSE st_yielded
           /\ st_pc' = IF r.kind = "raise" THEN "raised" ELSE "reading"
           /\ st_exc' = r.exc
    /\ UNCHANGED <<execVars, st_body, lifeVars, pureVars, fleetVars, moduleVars>>

\* The body is exhausted: the generator returns.
StreamEnd ==
    /\ st_pc = "reading"
    /\ st_idx = Len(st_body)
    /\ st_pc' = "ended"
    /\ UNCHANGED <<execVars, st_body, st_idx, st_yielded, st_exc, lifeVars, pureVars, fleetVars, moduleVars>>

\* The connection fails while the body is read.
StreamConnectionLost ==
    /\ st_pc = "reading"
    /\ st_pc' = "raised"
    /\ st_exc' = "aiohttp.ClientError"
    /\ outcomes' = Append(outcomes, ConnectionFailure)
    /\ UNCHANGED <<variant, method, max_retries, session, pc, attempt, total, sent,
                   delays, result, st_body, st_idx, st_yielded, lifeVars, pureVars, fleetVars, moduleVars>>

(***************************************************************************)
(* The life of one client: construction, calls, close, the scoped form     *)
(***************************************************************************)
\* The calls of one client that can be in flight together.
Calls == {1, 2}

\* An argument left out of the call.
Omitted == [t |-> "omitted"]
KeyA == JStr("key-A")
KeyB == JStr("key-B")
KeyEnv == JStr("key-env")
\* api_key arguments of a constructor: left out, None, "" or a key.
KeyArgs == {Omitted, JNull, JStr(""), KeyA}
\* os.getenv("TITANGPT_API_KEY"): None when unset.
EnvValues == {JNull, KeyEnv}
\* python truth of a key: None and "" are falsy.
Truthy(k) == k.t = "str" /\ k.v # ""

\* f"Bearer {api_key}"
Bearer(k) == <<"Bearer", k>>
NoHeader == <<>>
\* headers={"Authorization": ...} passed by the caller of one call.
CallerAuth == Bearer(JStr("caller-key"))
CallerHeaders == {NoHeader, CallerAuth}

NoArgs == [key |-> Omitted, env |-> JNull]
NoRotation == [done |-> FALSE, key |-> JNull, exc |-> ""]
NoWire == [sid |-> 0, open |-> FALSE, auth |-> NoHeader]

\* What the server answers to the calls of SpecLife.
LifeOutcomes == {Http(200, BodyObject), Http(503, BodyError), ConnectionFailure}

InFlight(c) == c_pc[c] \in {"sending", "awaiting", "sleeping"}

\* A backoff that sleeps in the thread instead of awaiting asyncio.sleep.
BlockingSleep(c) == (variant = "sync" /\ InFlight(c)) \/ c_pc[c] = "sleeping"

\* A call that holds the thread: a call of the blocking client does until
\* it ends; a coroutine of AsyncClient awaits its request and its sleep.
Blocking(c) == variant = "sync" /\ InFlight(c)

\* The blocking client runs one operation at a time.
Blocked == \E c \in Calls : Blocking(c)

\* No other call holds the thread, so call c can take a step.
CanRun(c) == \A d \in Calls \ {c} : ~Blocking(d)

\* The entries of c_log: a request sent, its outcome, a sleep that ended.
NoOutcome == [kind |-> "none", status |-> 0, body |-> BodyEmpty]
Event(e, a, o) == [e |-> e, a |-> a, o |-> o]
Log(c, es) == c_log' = [c_log EXCEPT ![c] = c_log[c] \o es]

\* A result kept in one place for all the calls of the client.
EndCallShared(c, r) ==
    /\ c_pc' = [c_pc EXCEPT ![c] = IF r.kind = "return" THEN "returned" ELSE "raised"]
    /\ c_res' = [d \in Calls |-> r]
    /\ c_sid' = [c_sid EXCEPT ![c] = 0]
    /\ c_hdr' = [c_hdr EXCEPT ![c] = NoHeader]
    /\ c_auth' = [c_auth EXCEPT ![c] = NoHeader]
    /\ c_attempt' = [c_attempt EXCEPT ![c] = 0]

\* The locals of a call are gone when it has ended.
EndCall(c, r) ==
    /\ c_pc' = [c_pc EXCEPT ![c] = IF r.kind = "return" THEN "returned" ELSE "raised"]
    /\ c_res' = [c_res EXCEPT ![c] = r]
    /\ c_sid' = [c_sid EXCEPT ![c] = 0]
    /\ c_hdr' = [c_hdr EXCEPT ![c] = NoHeader]
    /\ c_auth' = [c_auth EXCEPT ![c] = NoHeader]
    /\ c_attempt' = [c_attempt EXCEPT ![c] = 0]

callVars == <<c_pc, c_sid, c_hdr, c_auth, c_attempt, c_res, c_log>>
scopeVars == <<scope, exit_path, as_target>>
unusedVars == <<method, pc, attempt, total, sent, outcomes, delays, result, streamVars,
                pureVars, fleetVars, moduleVars>>

\* AsyncClient.__init__: the key is stored as given, no session is created.
AsyncConstruct ==
    /\ constructed = "no"
    /\ variant' = "async"
    /\ \E k \in KeyArgs :
         /\ init_args' = [key |-> k, env |-> JNull]
         /\ IF k = Omitted
               THEN /\ constructed' = "failed"
                    /\ life_exc' = "TypeError"
                    /\ api_key' = api_key
               ELSE /\ constructed' = "ok"
                    /\ life_exc' = ""
                    /\ api_key' = k
    /\ UNCHANGED <<max_retries, session, session_auth, default_client, rotation,
                   created, closes, scopeVars, callVars, wire, unusedVars>>

\* `api_key or os.getenv("TITANGPT_API_KEY")`
ResolveKey(k, e) == IF k # Omitted /\ Truthy(k) THEN k ELSE e

\* TitanGPTClient.__init__ and _create_session: the key is resolved, ValueError
\* when it is falsy, else the session is created with its default headers.
SyncInit(k, e) ==
    /\ variant' = "sync"
    /\ init_args' = [key |-> k, env |-> e]
    /\ IF ~Truthy(ResolveKey(k, e))
          THEN /\ constructed' = "failed"
               /\ life_exc' = "ValueError"
               /\ UNCHANGED <<api_key, session, session_auth, created>>
          ELSE /\ constructed' = "ok"
               /\ life_exc' = ""
               /\ api_key' = ResolveKey(k, e)
               /\ session' = "open"
               /\ created' = created + 1
               /\ session_auth' = Bearer(ResolveKey(k, e))

SyncConstruct ==
    /\ constructed = "no"
    /\ \E k \in KeyArgs, e \in EnvValues : SyncInit(k, e)
    /\ UNCHANGED <<max_retries, default_client, rotation, closes, scopeVars,
                   callVars, wire, unusedVars>>

\* A close without its guard: None has no close().
AsyncCloseUnguarded(s) ==
    [session |-> IF s = "none" THEN s ELSE "closed",
     exc |-> IF s = "none" THEN "AttributeError" ELSE ""]

\* AsyncClient.close: the session is closed when there is one and it is open.
AsyncClose(s) == [session |-> IF s = "open" THEN "closed" ELSE s, exc |-> ""]

\* TitanGPTClient.close: requests.Session.close() on the session of construction.
SyncClose(s) == [session |-> "closed", exc |-> ""]

CloseResult == IF variant = "async" THEN AsyncClose(session) ELSE SyncClose(session)

\* close() called by the owner of the client.
Close ==
    /\ constructed = "ok"
    /\ ~Blocked
    /\ closes < MaxCloses - (IF scope = "in" THEN 1 ELSE 0)
    /\ session' = CloseResult.session
    /\ life_exc' = CloseResult.exc
    /\ closes' = closes + 1
    /\ UNCHANGED <<variant, max_retries, init_args, constructed, api_key, session_auth,
                   default_client, rotation, created, scopeVars, callVars, wire,
                   unusedVars>>

\* __aenter__ ensures the session and returns self; __enter__ returns self.
ScopeEnter ==
    /\ constructed = "ok"
    /\ ~Blocked
    /\ scope \in {"out", "exited"}
    /\ closes < MaxCloses
    /\ scope' = "in"
    /\ exit_path' = ""
    /\ as_target' = "self"
    /\ session' = IF variant = "async" THEN EnsureSession(session) ELSE session
    /\ created' = IF variant = "async" /\ NeedsSession(session)
                     THEN created + 1 ELSE created
    /\ UNCHANGED <<variant, max_retries, init_args, constructed, api_key, session_auth,
                   default_client, rotation, life_exc, closes, callVars, wire,
                   unusedVars>>

\* The ways the body of a with statement ends.
ExitPaths == {"normal", "call_error", "exception"}

\* An exit that closes only when the body ended without an exception.
ExitClosesOnSuccess(p) == p = "normal"

\* __aexit__ / __exit__ call close() whatever exc_type is.
ExitCloses(p) == p \in ExitPaths

\* The body ends: by its last statement, by the exception of a call made in
\* it, or by another exception; __aexit__ / __exit__ runs.
ScopeExit ==
    /\ scope = "in"
    /\ ~Blocked
    /\ \E p \in ExitPaths :
         /\ p = "call_error" => \E c \in Calls : c_pc[c] = "raised"
         /\ exit_path' = p
         /\ IF ExitCloses(p)
               THEN /\ session' = CloseResult.session
                    /\ life_exc' = CloseResult.exc
                    /\ closes' = closes + 1
               ELSE UNCHANGED <<session, life_exc, closes>>
    /\ scope' = "exited"
    /\ UNCHANGED <<variant, max_retries, init_args, constructed, api_key, session_auth,
                   default_client, rotation, created, as_target, callVars, wire,
                   unusedVars>>

\* AsyncClient._request up to the loop: the session is ensured and kept in a
\* local, the headers are built once. A headers argument of the public
\* methods is part of the JSON payload, not of the request headers.
LifeAsyncBegin(c) ==
    /\ constructed = "ok"
    /\ variant = "async"
    /\ ~InFlight(c)
    /\ CanRun(c)
    /\ session' = EnsureSession(session)
    /\ created' = IF NeedsSession(session) THEN created + 1 ELSE created
    /\ c_log' = [c_log EXCEPT ![c] = <<>>]
    /\ IF max_retries = 0
          THEN EndCall(c, Return(JNull))
          ELSE /\ c_pc' = [c_pc EXCEPT ![c] = "sending"]
               /\ c_res' = [c_res EXCEPT ![c] = NoResult]
               /\ c_sid' = [c_sid EXCEPT ![c] = created']
               /\ \E h \in CallerHeaders : c_hdr' = [c_hdr EXCEPT ![c] = h]
               /\ c_auth' = [c_auth EXCEPT ![c] = Bearer(api_key)]
               /\ c_attempt' = [c_attempt EXCEPT ![c] = 0]
    /\ UNCHANGED <<variant, max_retries, init_args, constructed, api_key, session_auth,
                   default_client, rotation, life_exc, closes, scopeVars, wire,
                   unusedVars>>

\* Headers built anew for every attempt, from the key the client has then.
AttemptAuthFresh(c) == Bearer(api_key)

\* `headers=headers` of session.request: the headers built before the loop.
AttemptAuth(c) == c_auth[c]

\* A session that still sends after it was closed.
SessionSendsAlways(sid) == TRUE

\* The session a call keeps in its local still sends: it is the one the
\* client holds and it is open. A session that was closed stays closed.
SessionSends(sid) == sid = created /\ session = "open"

\* session.request of one pass of the loop: the request goes on the wire and
\* the coroutine awaits the response. aiohttp refuses a request on a closed
\* session with RuntimeError("Session is closed"); nothing is sent then.
LifeAsyncSend(c) ==
    /\ variant = "async"
    /\ c_pc[c] = "sending"
    /\ CanRun(c)
    /\ IF ~SessionSends(c_sid[c])
          THEN /\ EndCall(c, Raise("RuntimeError", 0))
               /\ UNCHANGED <<wire, c_log>>
          ELSE /\ wire' = [sid |-> c_sid[c], open |-> TRUE, auth |-> AttemptAuth(c)]
               /\ c_pc' = [c_pc EXCEPT ![c] = "awaiting"]
               /\ Log(c, <<Event("send", c_attempt[c], NoOutcome)>>)
               /\ UNCHANGED <<c_sid, c_hdr, c_auth, c_attempt, c_res>>
    /\ UNCHANGED <<variant, max_retries, session, init_args, constructed, api_key,
                   session_auth, default_client, rotation, life_exc, created, closes,
                   scopeVars, unusedVars>>

\* The outcome of the request arrives and the rest of the loop body runs: the
\* call returns, raises, or starts its backoff sleep.
LifeAsyncReceive(c) ==
    /\ variant = "async"
    /\ c_pc[c] = "awaiting"
    /\ CanRun(c)
    /\ \E o \in LifeOutcomes :
         /\ Log(c, <<Event("outcome", c_attempt[c], o)>>)
         /\ IF AsyncRetryable(o) /\ AsyncAttemptsRemain(c_attempt[c], max_retries)
               THEN /\ c_pc' = [c_pc EXCEPT ![c] = "sleeping"]
                    /\ UNCHANGED <<c_sid, c_hdr, c_auth, c_attempt, c_res>>
               ELSE EndCall(c, AsyncTerminal(o))
    /\ UNCHANGED <<variant, max_retries, session, init_args, constructed, api_key,
                   session_auth, default_client, rotation, life_exc, created, closes,
                   scopeVars, wire, unusedVars>>

\* A timer that fires while the request is still awaited.
LifeAsyncWakeEarly(c) ==
    /\ variant = "async"
    /\ c_pc[c] \in {"sleeping", "awaiting"}
    /\ c_pc' = [c_pc EXCEPT ![c] = "sending"]
    /\ c_attempt' = [c_attempt EXCEPT ![c] = c_attempt[c] + 1]
    /\ Log(c, <<Event("slept", c_attempt[c], NoOutcome)>>)
    /\ UNCHANGED <<variant, max_retries, session, init_args, constructed, api_key,
                   session_auth, default_client, rotation, life_exc, created, closes,
                   scopeVars, c_sid, c_hdr, c_auth, c_res, wire, unusedVars>>

\* asyncio.sleep returns; the loop goes to its next attempt.
LifeAsyncWake(c) ==
    /\ variant = "async"
    /\ c_pc[c] = "sleeping"
    /\ CanRun(c)
    /\ c_pc' = [c_pc EXCEPT ![c] = "sending"]
    /\ c_attempt' = [c_attempt EXCEPT ![c] = c_attempt[c] + 1]
    /\ Log(c, <<Event("slept", c_attempt[c], NoOutcome)>>)
    /\ UNCHANGED <<variant, max_retries, session, init_args, constructed, api_key,
                   session_auth, default_client, rotation, life_exc, created, closes,
                   scopeVars, c_sid, c_hdr, c_auth, c_res, wire, unusedVars>>

\* requests merges the headers of the call over those of the session.
MergeHeaders(sessionAuth, h) == IF h # NoHeader THEN h ELSE sessionAuth

\* TitanGPTClient.get/post/put/delete -> _request: the caller's keyword
\* arguments, headers included, go to session.request.
LifeSyncBegin(c) ==
    /\ constructed = "ok"
    /\ variant = "sync"
    /\ ~Blocked
    /\ c = 1
    /\ c_pc' = [c_pc EXCEPT ![c] = "sending"]
    /\ c_res' = [c_res EXCEPT ![c] = NoResult]
    /\ c_sid' = [c_sid EXCEPT ![c] = created]
    /\ c_log' = [c_log EXCEPT ![c] = <<>>]
    /\ \E h \in CallerHeaders :
         /\ c_hdr' = [c_hdr EXCEPT ![c] = h]
         /\ c_auth' = [c_auth EXCEPT ![c] = MergeHeaders(session_auth, h)]
    /\ c_attempt' = [c_attempt EXCEPT ![c] = max_retries]
    /\ UNCHANGED <<variant, max_retries, session, init_args, constructed, api_key,
                   session_auth, default_client, rotation, life_exc, created, closes,
                   scopeVars, wire, unusedVars>>

\* One send by the adapter inside session.request, the thread waiting for its
\* outcome and through the backoff of a retry. A session that was closed
\* still sends: requests opens a connection again.
LifeSyncAttempt(c) ==
    /\ variant = "sync"
    /\ c_pc[c] = "sending"
    /\ wire' = [sid |-> c_sid[c], open |-> session = "open", auth |-> c_auth[c]]
    /\ \E o \in LifeOutcomes :
         LET n == max_retries - c_attempt[c]
             evs == <<Event("send", n, NoOutcome), Event("outcome", n, o)>>
         IN IF SyncRetryable("POST", o)
               THEN IF c_attempt[c] - 1 < 0
                       THEN EndCall(c, SyncExhausted(o)) /\ Log(c, evs)
                       ELSE /\ c_attempt' = [c_attempt EXCEPT ![c] = c_attempt[c] - 1]
                            /\ Log(c, evs \o <<Event("slept", n, NoOutcome)>>)
                            /\ UNCHANGED <<c_pc, c_sid, c_hdr, c_auth, c_res>>
               ELSE EndCall(c, SyncTerminal(o)) /\ Log(c, evs)
    /\ UNCHANGED <<variant, max_retries, session, init_args, constructed, api_key,
                   session_auth, default_client, rotation, life_exc, created, closes,
                   scopeVars, unusedVars>>

\* The owner assigns another key to the api_key attribute of an AsyncClient;
\* _get_headers reads the attribute each time it is called.
AsyncSetKey ==
    /\ constructed = "ok"
    /\ variant = "async"
    /\ \E k \in {KeyA, KeyB} \ {api_key} : api_key' = k
    /\ UNCHANGED <<variant, max_retries, session, init_args, constructed, session_auth,
                   default_client, rotation, life_exc, created, closes, scopeVars,
                   callVars, wire, unusedVars>>

\* titangpt.set_api_key: the default client is constructed when there is
\* none; else its set_api_key is called, which TitanGPTClient does not have.
ModuleSetApiKey ==
    \E k \in {KeyA, KeyB} :
       IF constructed = "no"
          THEN /\ \E e \in EnvValues : SyncInit(k, e)
               /\ default_client' = TRUE
               /\ UNCHANGED <<max_retries, rotation, closes, scopeVars, callVars, wire,
                              unusedVars>>
          ELSE /\ constructed = "ok"
               /\ default_client
               /\ ~Blocked
               /\ rotation' = [done |-> TRUE, key |-> k, exc |-> "AttributeError"]
               /\ UNCHANGED <<variant, max_retries, session, init_args, constructed,
                              api_key, session_auth, default_client, life_exc, created,
                              closes, scopeVars, callVars, wire, unusedVars>>

(***************************************************************************)
(* The functions of one request, applied to drawn inputs                   *)
(***************************************************************************)
\* A URL or a path is the sequence of its parts: the origin, slashes, names.
Origin == "https://api.titangpt.com"
Slash == "/"
BaseUrls ==
    {<<Origin>>, <<Origin, Slash>>, <<Origin, Slash, "v1">>,
     <<Origin, Slash, "v1", Slash>>}
Endpoints ==
    {<<"models">>, <<Slash, "models">>, <<"v1", Slash, "models">>,
     <<Slash, "v1", Slash, "models">>}

\* str.rstrip("/")
RECURSIVE RStrip(_)
RStrip(s) ==
    IF s # <<>> /\ s[Len(s)] = Slash THEN RStrip(SubSeq(s, 1, Len(s) - 1)) ELSE s

\* str.lstrip("/")
RECURSIVE LStrip(_)
LStrip(s) == IF s # <<>> /\ Head(s) = Slash THEN LStrip(Tail(s)) ELSE s

\* TitanGPTClient: base_url.rstrip("/") at construction, then
\* f"{self.base_url}/{endpoint.lstrip('/')}".
SyncUrl(b, e) == RStrip(b) \o <<Slash>> \o LStrip(e)

\* The base path of RFC 3986 merging: all up to and with its last slash.
RECURSIVE DropLastSegment(_)
DropLastSegment(s) ==
    IF s = <<>> \/ s[Len(s)] = Slash
       THEN s ELSE DropLastSegment(SubSeq(s, 1, Len(s) - 1))

\* urllib.parse.urljoin for a reference that is a path with at most one
\* leading slash: an absolute path replaces the path of the base, a relative
\* one replaces its last segment.
UrlJoin(b, e) ==
    IF e = <<>> THEN b
    ELSE IF Head(e) = Slash THEN <<Head(b)>> \o e
    ELSE IF Len(b) = 1 THEN b \o <<Slash>> \o e
    ELSE DropLastSegment(b) \o e

\* AsyncClient keeps base_url as given; urljoin(self.base_url, endpoint).
AsyncUrl(b, e) == UrlJoin(b, e)

\* self.timeout of a client, and the timeout argument of one call.
ConfiguredTimeouts == {JNum(30), JNum(60)}
TimeoutArgs == {Omitted, JNum(5), JNum(30)}

\* What becomes of the request: sent or not, with which timeout.
Sent(t) == [sent |-> TRUE, timeout |-> t, exc |-> ""]
NotSent(e) == [sent |-> FALSE, timeout |-> JNull, exc |-> e]

\* TitanGPTClient._request: `if "timeout" not in kwargs`.
SyncTimeout(cfg, arg) == IF arg = Omitted THEN Sent(cfg) ELSE Sent(arg)

\* AsyncClient._request: timeout=timeout next to **kwargs; a timeout among
\* the keyword arguments is a second value for the same parameter.
AsyncTimeout(cfg, arg) == IF arg = Omitted THEN Sent(cfg) ELSE NotSent("TypeError")

\* AsyncClient.chat_completion(timeout=...): the keyword argument becomes a
\* field of the JSON payload.
AsyncPayloadTimeout(cfg, arg) == Sent(cfg)

\* The responses of SpecPure and the field the caller reads of the result.
PureStatuses == {200, 404, 429, 503}
PureBodies ==
    {BodyObject, BodyEmpty, BodyError, BodyNested, BodyMessage, BodyDetail, BodyText}
FieldNames == {"id", "a", "c", "z"}

\* A read that gives a default for a missing key, as dict.get does.
KeyReadDefault(v, k) ==
    IF v.t = "obj" /\ k \in DOMAIN v.v
       THEN [kind |-> "value", value |-> v.v[k]]
       ELSE [kind |-> "value", value |-> JNull]

\* result[name] on the value a call returned: a dict gives the value or
\* KeyError; None and the other values have no keys.
KeyRead(v, k) ==
    IF v.t = "obj"
       THEN IF k \in DOMAIN v.v
               THEN [kind |-> "value", value |-> v.v[k]]
               ELSE [kind |-> "KeyError", value |-> JNull]
       ELSE [kind |-> "TypeError", value |-> JNull]

\* result.name on the value a call returned: a dict and None have no
\* attribute named after a field.
AttrRead(v, k) == [kind |-> "AttributeError", value |-> JNull]

NoRead == [kind |-> "none", value |-> JNull]

\* The value a call returns for a response, and the caller's reads of it.
ReadsOf(r, k) ==
    [result |-> r,
     key |-> IF r.kind = "return" THEN KeyRead(r.value, k) ELSE NoRead,
     attr |-> IF r.kind = "return" THEN AttrRead(r.value, k) ELSE NoRead]

\* The parts of the message of an exception: its fixed words, the status
\* when the message shows it, and the text taken from the response.
Message(lead, status, text) == [lead |-> lead, status |-> status, text |-> text]

\* AsyncClient._request: the messages of its raise statements.
AsyncErrorMessage(status, body) ==
    CASE status = 401 -> Message("Unauthorized: Invalid API key", 0, "")
      [] status = 429 -> Message("Rate limit exceeded", 0, "")
      [] status >= 500 -> Message("Server error: ", status, "")
      [] OTHER -> Message("Request failed with status ", status, body)

\* TitanGPTClient: f"API Error: {status_code} - {response.text}" in
\* _handle_response; a status of the forcelist never gets there, the adapter
\* raises RetryError("... too many <status> error responses") for it.
SyncErrorMessage(status, body) ==
    IF status \in StatusForcelist
       THEN Message("too many error responses: ", status, "")
       ELSE Message("API Error: ", status, body)

\* The default of base_url in the signature of TitanGPTClient.__init__.
DefaultBaseUrl == <<Origin, Slash, "v1">>

\* TitanGPTClient.__init__ as far as base_url: the key is resolved first
\* (ValueError when there is none), then base_url.rstrip("/") is stored; None
\* has no rstrip.
SyncNew(k, e, b) ==
    IF ~Truthy(ResolveKey(k, e))
       THEN [kind |-> "raise", exc |-> "ValueError", base_url |-> <<>>]
       ELSE IF b.t = "null"
               THEN [kind |-> "raise", exc |-> "AttributeError", base_url |-> <<>>]
               ELSE [kind |-> "return", exc |-> "", base_url |-> RStrip(b.v)]

\* The arguments a caller leaves out: TitanGPTClient(...) falls back on the
\* defaults of the signature, get_client(...) on its own defaults, None, which
\* it hands on as explicit arguments.
DirectArg(given, v, default) == IF given THEN v ELSE default
GetClientArg(given, v) == IF given THEN v ELSE JNull

PureInputs ==
    [base_url : BaseUrls, endpoint : Endpoints,
     timeout : ConfiguredTimeouts, timeout_arg : TimeoutArgs,
     status : PureStatuses, body : PureBodies, field : FieldNames,
     key : {Omitted, KeyA}, base_url_given : BOOLEAN]

\* A function of the request is applied once to the inputs drawn.
Apply(fn, out) ==
    /\ pure_fn = ""
    /\ pure_fn' = fn
    /\ pure_out' = out
    /\ UNCHANGED <<pure_in, execVars, streamVars, lifeVars, fleetVars, moduleVars>>

SyncBuildUrl == Apply("TitanGPTClient.url", SyncUrl(pure_in.base_url, pure_in.endpoint))
AsyncBuildUrl == Apply("AsyncClient.url", AsyncUrl(pure_in.base_url, pure_in.endpoint))
SyncApplyTimeout ==
    Apply("TitanGPTClient.timeout", SyncTimeout(pure_in.timeout, pure_in.timeout_arg))
AsyncApplyTimeout ==
    Apply("AsyncClient.timeout", AsyncTimeout(pure_in.timeout, pure_in.timeout_arg))
AsyncApplyPayloadTimeout ==
    Apply("AsyncClient.chat_completion.timeout",
          AsyncPayloadTimeout(pure_in.timeout, pure_in.timeout_arg))

SyncReadResult ==
    Apply("TitanGPTClient.result",
          ReadsOf(HandleResponse(Http(pure_in.status, pure_in.body)), pure_in.field))
AsyncReadResult ==
    Apply("AsyncClient.result",
          ReadsOf(AsyncTerminal(Http(pure_in.status, pure_in.body)), pure_in.field))
SyncRaiseMessage ==
    /\ pure_in.status >= 400
    /\ Apply("TitanGPTClient.message", SyncErrorMessage(pure_in.status, pure_in.body))
AsyncRaiseMessage ==
    /\ pure_in.status >= 400
    /\ Apply("AsyncClient.message", AsyncErrorMessage(pure_in.status, pure_in.body))

\* TitanGPTClient(api_key=..., base_url=...) with no key in the environment.
SyncNewClient ==
    Apply("TitanGPTClient.__init__",
          SyncNew(DirectArg(pure_in.key # Omitted, pure_in.key, JNull), JNull,
                  DirectArg(pure_in.base_url_given, JStr(pure_in.base_url),
                            JStr(DefaultBaseUrl))))
\* get_client(api_key=..., base_url=...) while the module has no default client.
ModuleGetClient ==
    Apply("get_client",
          SyncNew(GetClientArg(pure_in.key # Omitted, pure_in.key), JNull,
                  GetClientArg(pure_in.base_url_given, JStr(pure_in.base_url))))

\* Nothing drawn, nothing applied: Spec, SpecStream and SpecLife leave it so.
PureIdle ==
    /\ pure_in = JNull
    /\ pure_fn = ""
    /\ pure_out = JNull

(***************************************************************************)
(* Several client instances: each holds its own configuration and a        *)
(* reference to the session object it created.                             *)
(***************************************************************************)
ClientIds == {1, 2}
FleetConfigs == [api_key : {KeyA, KeyB}, timeout : ConfiguredTimeouts]
NoClient ==
    [variant |-> "none", config |-> [api_key |-> JNull, timeout |-> JNull],
     ref |-> 0, last |-> "none"]
NoActor == [id |-> 0, op |-> ""]

\* The state of the session an instance holds: "none" while self._session is
\* None, else the state of the object it refers to.
SessionOf(i) ==
    IF f_client[i].ref = 0 THEN "none" ELSE f_heap[f_client[i].ref]

\* One session object for every instance, as a class attribute would be.
SharedSession(heap) == 1

\* aiohttp.ClientSession(...) and requests.Session(): a new object each time.
NewSession(heap) == Len(heap) + 1

\* The heap after a session was created and opened at reference r.
Opened(heap, r) ==
    IF r > Len(heap) THEN Append(heap, "open") ELSE [heap EXCEPT ![r] = "open"]

\* AsyncClient(...) keeps the configuration and no session;
\* TitanGPTClient(...) keeps it and creates its session.
FleetConstruct(i) ==
    /\ f_client[i].variant = "none"
    /\ \E v \in {"async", "sync"}, cfg \in FleetConfigs :
          IF v = "sync"
             THEN /\ Len(f_heap) < MaxSessions
                  /\ f_heap' = Opened(f_heap, NewSession(f_heap))
                  /\ f_client' = [f_client EXCEPT ![i] =
                        [variant |-> v, config |-> cfg, ref |-> NewSession(f_heap),
                         last |-> "none"]]
             ELSE /\ f_heap' = f_heap
                  /\ f_client' = [f_client EXCEPT ![i] =
                        [variant |-> v, config |-> cfg, ref |-> 0, last |-> "none"]]
    /\ f_actor' = [id |-> i, op |-> "construct"]
    /\ UNCHANGED <<execVars, streamVars, lifeVars, pureVars, moduleVars>>

\* _request on instance i up to the outcome it hands to its caller: the
\* asynchronous client first replaces a missing or closed session of its own.
FleetCall(i) ==
    /\ f_client[i].variant # "none"
    /\ \E o \in LifeOutcomes :
          LET c == f_client[i]
              opens == c.variant = "async" /\ NeedsSession(SessionOf(i))
              r == IF opens THEN NewSession(f_heap) ELSE c.ref
              res == IF c.variant = "async" THEN AsyncTerminal(o) ELSE SyncTerminal(o)
          IN /\ opens => Len(f_heap) < MaxSessions
             /\ f_heap' = IF opens THEN Opened(f_heap, r) ELSE f_heap
             /\ f_client' = [f_client EXCEPT ![i].ref = r, ![i].last = res.kind]
    /\ f_actor' = [id |-> i, op |-> "call"]
    /\ UNCHANGED <<execVars, streamVars, lifeVars, pureVars, moduleVars>>

\* close() on instance i: it closes the session this instance holds.
FleetClose(i) ==
    /\ f_client[i].variant # "none"
    /\ LET c == f_client[i]
           after == IF c.variant = "async" THEN AsyncClose(SessionOf(i)).session
                    ELSE SyncClose(SessionOf(i)).session
       IN f_heap' = IF c.ref = 0 THEN f_heap ELSE [f_heap EXCEPT ![c.ref] = after]
    /\ f_actor' = [id |-> i, op |-> "close"]
    /\ UNCHANGED <<f_client, execVars, streamVars, lifeVars, pureVars, moduleVars>>

\* No instance yet: Spec, SpecStream, SpecLife and SpecPure leave it so.
FleetIdle ==
    /\ f_client = [i \in ClientIds |-> NoClient]
    /\ f_heap = <<>>
    /\ f_actor = NoActor

(***************************************************************************)
(* The default client of the module: _client, get_client, set_api_key      *)
(***************************************************************************)
NoDefault == [id |-> 0, api_key |-> JNull, base_url |-> <<>>]
NoCall == [fn |-> "", key |-> JNull, base_url |-> JNull, kind |-> "none", exc |-> "",
           id |-> 0]
\* The arguments of the calls: None stands for an argument left out.
ModuleKeys == {JNull, KeyA, KeyB}
ModuleUrls == {JNull} \cup {JStr(b) : b \in BaseUrls}

\* A default client made anew by every call.
NeedsDefaultAlways(c) == TRUE

\* `if _client is None`
NeedsDefault(c) == c.id = 0

\* `_client = TitanGPTClient(api_key=k, base_url=b)` and what the call of fn
\* ends in: the instance is kept when __init__ returns, else _client stays
\* as it is and the exception goes to the caller.
MakeDefault(fn, k, e, b, kArg, bArg) ==
    LET r == SyncNew(k, e, b)
    IN IF r.kind = "return"
          THEN /\ m_made' = m_made + 1
               /\ m_client' = [id |-> m_made + 1, api_key |-> ResolveKey(k, e),
                               base_url |-> r.base_url]
               /\ m_call' = [fn |-> fn, key |-> kArg, base_url |-> bArg,
                             kind |-> "return", exc |-> "", id |-> m_made + 1]
          ELSE /\ m_call' = [fn |-> fn, key |-> kArg, base_url |-> bArg,
                             kind |-> "raise", exc |-> r.exc, id |-> 0]
               /\ UNCHANGED <<m_client, m_made>>

\* get_client(api_key=k, base_url=b)
GetClientCall ==
    /\ \E k \in ModuleKeys, b \in ModuleUrls, e \in EnvValues :
          IF NeedsDefault(m_client)
             THEN MakeDefault("get_client", k, e, b, k, b)
             ELSE /\ m_call' = [fn |-> "get_client", key |-> k, base_url |-> b,
                                kind |-> "return", exc |-> "", id |-> m_client.id]
                  /\ UNCHANGED <<m_client, m_made>>
    /\ UNCHANGED <<execVars, streamVars, lifeVars, pureVars, fleetVars>>

\* set_api_key(k): a default client is made when there is none; else
\* _client.set_api_key(k), a method TitanGPTClient does not have.
SetApiKeyCall ==
    /\ \E k \in {KeyA, KeyB}, e \in EnvValues :
          IF NeedsDefault(m_client)
             THEN MakeDefault("set_api_key", k, e, JStr(DefaultBaseUrl), k, JNull)
             ELSE /\ m_call' = [fn |-> "set_api_key", key |-> k, base_url |-> JNull,
                                kind |-> "raise", exc |-> "AttributeError", id |-> 0]
                  /\ UNCHANGED <<m_client, m_made>>
    /\ UNCHANGED <<execVars, streamVars, lifeVars, pureVars, fleetVars>>

\* The module as imported: Spec, SpecStream, SpecLife and the others leave it so.
ModuleIdle ==
    /\ m_client = NoDefault
    /\ m_made = 0
    /\ m_call = NoCall

(***************************************************************************)
(* Specification of one logical call                                       *)
(***************************************************************************)
StreamIdle ==
    /\ st_pc = "idle"
    /\ st_body = <<>>
    /\ st_idx = 0
    /\ st_yielded = <<>>
    /\ st_exc = ""

\* No client yet: what SpecLife starts from; Spec and SpecStream leave it so.
LifeStart ==
    /\ init_args = NoArgs
    /\ constructed = "no"
    /\ api_key = JNull
    /\ session_auth = NoHeader
    /\ default_client = FALSE
    /\ rotation = NoRotation
    /\ life_exc = ""
    /\ created = 0
    /\ closes = 0
    /\ scope = "out"
    /\ exit_path = ""
    /\ as_target = ""
    /\ c_pc = [c \in Calls |-> "idle"]
    /\ c_sid = [c \in Calls |-> 0]
    /\ c_hdr = [c \in Calls |-> NoHeader]
    /\ c_auth = [c \in Calls |-> NoHeader]
    /\ c_attempt = [c \in Calls |-> 0]
    /\ c_res = [c \in Calls |-> NoResult]
    /\ c_log = [c \in Calls |-> <<>>]
    /\ wire = NoWire

ExecIdle ==
    /\ variant = "none"
    /\ method = "GET"
    /\ session = "none"
    /\ pc = "idle"
    /\ attempt = 0
    /\ total = 0
    /\ sent = 0
    /\ outcomes = <<>>
    /\ delays = <<>>
    /\ result = NoResult

Init ==
    /\ max_retries \in 0..MaxRetriesBound
    /\ ExecIdle
    /\ StreamIdle
    /\ LifeStart
    /\ PureIdle
    /\ FleetIdle
    /\ ModuleIdle

Next ==
    \/ AsyncRequestBegin
    \/ AsyncAttempt
    \/ AsyncWake
    \/ SyncRequestBegin
    \/ SyncAttempt

Spec == Init /\ [][Next]_vars
NextStream ==
    \/ StreamOpen
    \/ StreamReadLine
    \/ StreamEnd
    \/ StreamConnectionLost

InitStream ==
    /\ max_retries = MaxRetriesBound
    /\ ExecIdle
    /\ StreamIdle
    /\ LifeStart
    /\ PureIdle
    /\ FleetIdle
    /\ ModuleIdle

SpecStream == InitStream /\ [][NextStream]_vars

InitLife ==
    /\ max_retries = LifeRetries
    /\ ExecIdle
    /\ StreamIdle
    /\ LifeStart
    /\ PureIdle
    /\ FleetIdle
    /\ ModuleIdle

NextLife ==
    \/ AsyncConstruct
    \/ SyncConstruct
    \/ ModuleSetApiKey
    \/ Close
    \/ ScopeEnter
    \/ ScopeExit
    \/ \E c \in Calls : LifeAsyncBegin(c)
    \/ \E c \in Calls : LifeAsyncSend(c)
    \/ \E c \in Calls : LifeAsyncReceive(c)
    \/ \E c \in Calls : LifeAsyncWake(c)
    \/ \E c \in Calls : LifeSyncBegin(c)
    \/ \E c \in Calls : LifeSyncAttempt(c)

SpecLife == InitLife /\ [][NextLife]_vars

InitPure ==
    /\ max_retries = MaxRetriesBound
    /\ ExecIdle
    /\ StreamIdle
    /\ LifeStart
    /\ pure_in \in PureInputs
    /\ pure_fn = ""
    /\ pure_out = JNull
    /\ FleetIdle
    /\ ModuleIdle

NextPure ==
    \/ SyncBuildUrl
    \/ AsyncBuildUrl
    \/ SyncApplyTimeout
    \/ AsyncApplyTimeout
    \/ AsyncApplyPayloadTimeout
    \/ SyncReadResult
    \/ AsyncReadResult
    \/ SyncRaiseMessage
    \/ AsyncRaiseMessage
    \/ SyncNewClient
    \/ ModuleGetClient

SpecPure == InitPure /\ [][NextPure]_vars

\* An AsyncClient whose key is changed while its calls run.
NextKey ==
    \/ AsyncConstruct
    \/ AsyncSetKey
    \/ \E c \in Calls : LifeAsyncBegin(c)
    \/ \E c \in Calls : LifeAsyncSend(c)
    \/ \E c \in Calls : LifeAsyncReceive(c)
    \/ \E c \in Calls : LifeAsyncWake(c)

SpecKey == InitLife /\ [][NextKey]_vars

\* One call of the asynchronous client whose attempts and sleeps all end.
InitTerm ==
    /\ max_retries \in 0..TermRetries
    /\ ExecIdle
    /\ StreamIdle
    /\ LifeStart
    /\ PureIdle
    /\ FleetIdle
    /\ ModuleIdle

NextAsync ==
    \/ AsyncRequestBegin
    \/ AsyncAttempt
    \/ AsyncWake

SpecAsyncFair ==
    InitTerm /\ [][NextAsync]_vars /\ WF_vars(AsyncAttempt) /\ WF_vars(AsyncWake)

InitFleet ==
    /\ max_retries = MaxRetriesBound
    /\ ExecIdle
    /\ StreamIdle
    /\ LifeStart
    /\ PureIdle
    /\ FleetIdle
    /\ ModuleIdle

NextFleet ==
    \/ \E i \in ClientIds : FleetConstruct(i)
    \/ \E i \in ClientIds : FleetCall(i)
    \/ \E i \in ClientIds : FleetClose(i)

SpecFleet == InitFleet /\ [][NextFleet]_vars

InitModule ==
    /\ max_retries = MaxRetriesBound
    /\ ExecIdle
    /\ StreamIdle
    /\ LifeStart
    /\ PureIdle
    /\ FleetIdle
    /\ ModuleIdle

NextModule ==
    \/ GetClientCall
    \/ SetApiKeyCall

SpecModule == InitModule /\ [][NextModule]_vars
(***************************************************************************)
(* Properties of the request executor (checked under Spec)                 *)
(***************************************************************************)
CallEnded == pc \in {"returned", "raised"}
LastOutcome == outcomes[Len(outcomes)]

\* The retryable failures of section 4.2 that need a response or a timer.
RetryableFailure(o) ==
    \/ o.kind = "timeout"
    \/ o.kind = "http" /\ (o.status = 429 \/ o.status \in 500..599)

\* The non-retryable statuses of section 4.2: every 4xx but 429.
NonRetryableStatus(o) ==
    o.kind = "http" /\ o.status \in 400..499 /\ o.status # 429

\* C1: with max_retries = N, a call whose every attempt ends in a retryable
\* failure (429, 5xx, timeout) makes exactly N+1 attempts and then raises the
\* error of the last attempt, in the asynchronous and in the blocking client.
C1_PersistentFailureMakesNPlusOneAttempts ==
    (CallEnded /\ Len(outcomes) >= 1
        /\ \A i \in 1..Len(outcomes) : RetryableFailure(outcomes[i]))
        => /\ sent = max_retries + 1
           /\ Len(outcomes) = sent
           /\ result.kind = "raise"
           /\ result.status = LastOutcome.status

AttemptsWereLeft ==
    \/ variant = "async" /\ sent < max_retries
    \/ variant = "sync" /\ sent < max_retries + 1

\* C3: a connection failure, a timeout, a 429 or any 5xx on an attempt that is
\* not the last one is never surfaced: the call goes on to another attempt.
C3_RetryableOutcomeIsRetried ==
    (pc = "raised" /\ Len(outcomes) >= 1
        /\ (RetryableFailure(LastOutcome) \/ LastOutcome.kind = "connection"))
        => ~AttemptsWereLeft

\* C4: in AsyncClient._request the k-th sleep, the one before attempt k
\* (0-indexed), lasts 1 * 2^(k-1) seconds; attempt k is sent after exactly k
\* sleeps; the delays of one call never decrease.
C4_BackoffDoubles ==
    variant = "async" =>
        /\ \A k \in 1..Len(delays) : delays[k] = 1 * 2^(k - 1)
        /\ \A j, k \in 1..Len(delays) : j <= k => delays[j] <= delays[k]
        /\ pc = "sending" => (Len(delays) = attempt /\ sent = attempt)
        /\ pc = "sleeping" => (Len(delays) = attempt + 1 /\ sent = attempt + 1)

\* C4 witness: the asynchronous call is about to send attempt 3 after the
\* delays 1, 2, 4.
C4_Witness ==
    /\ variant = "async"
    /\ pc = "sending"
    /\ attempt = 3
    /\ delays = <<1, 2, 4>>

\* An attempt answered 200 with a JSON document.
ParsedSuccess(o) == o.kind = "http" /\ o.status = 200 /\ o.body = BodyObject

\* C5: an attempt answered with a successfully parsed response is the last
\* attempt of its call, and the call has returned.
C5_SuccessIsLastAttempt ==
    \A i \in 1..Len(outcomes) :
        ParsedSuccess(outcomes[i])
            => /\ i = Len(outcomes)
               /\ sent = i
               /\ pc = "returned"
               /\ result.kind = "return"

\* C5 witness: a call that succeeded on its third attempt, with retries to spare.
C5_Witness ==
    /\ pc = "returned"
    /\ Len(outcomes) = 3
    /\ ParsedSuccess(outcomes[3])
    /\ max_retries > 3

\* C6: a call whose last attempt is answered with a status in 200..299 returns
\* the body parsed as JSON, the empty object for an empty body, in both clients.
C6_SuccessRangeReturnsJson ==
    (CallEnded /\ Len(outcomes) >= 1 /\ LastOutcome.kind = "http"
        /\ LastOutcome.status \in 200..299)
        => /\ result.kind = "return"
           /\ result.value = IF LastOutcome.body = BodyEmpty
                                THEN EmptyDict
                                ELSE ParseBody(LastOutcome.body)

\* The error kinds of section 4.3.
MappedKind(s) ==
    CASE s = 400 -> "titangpt.exceptions.ValidationError"
      [] s \in {401, 403} -> "titangpt.exceptions.AuthenticationError"
      [] s = 404 -> "titangpt.exceptions.ModelNotFoundError"
      [] s = 429 -> "titangpt.exceptions.RateLimitError"
      [] OTHER -> "titangpt.exceptions.APIError"

\* C7: the error raised for a response with status 400, 401, 403, 404, 429,
\* 500, 502, 503 or 504 is of the kind the mapping prescribes and carries the
\* status.
C7_ErrorKindFollowsMapping ==
    (pc = "raised" /\ Len(outcomes) >= 1 /\ LastOutcome.kind = "http"
        /\ LastOutcome.status \in {400, 401, 403, 404, 429, 500, 502, 503, 504})
        => /\ result.exc = MappedKind(LastOutcome.status)
           /\ result.status = LastOutcome.status

\* C8: a call that fails without a response raises the library's
\* ConnectionError for a network failure and the library's TimeoutError for a
\* timeout that outlasted the retries.
C8_TransportErrorsAreTyped ==
    (pc = "raised" /\ Len(outcomes) >= 1)
        => /\ LastOutcome.kind = "connection"
                => result.exc = "titangpt.exceptions.ConnectionError"
           /\ LastOutcome.kind = "timeout"
                => result.exc = "titangpt.exceptions.TimeoutError"

(***************************************************************************)
(* Properties of the stream decoder (checked under SpecStream)             *)
(***************************************************************************)
\* The line is the frame `data: [DONE]`.
IsDoneFrame(l) ==
    Decodable(l) /\ StartsWithPrefix(Strip(l)) /\ Payload(Strip(l)) = <<DoneToken>>

\* C9: once the frame with payload [DONE] has been read no later line of the
\* body is read, so nothing that follows it is yielded.
C9_DoneEndsTheStream ==
    \A i \in 1..st_idx : IsDoneFrame(st_body[i]) => st_idx = i

\* The frame carries a first choice with delta content.
CarriesContent(j) ==
    /\ HasKey(j, "choices")
    /\ j.v["choices"].t = "list"
    /\ Len(j.v["choices"].v) >= 1
    /\ HasKey(j.v["choices"].v[1], "delta")
    /\ HasKey(j.v["choices"].v[1].v["delta"], "content")

\* The deltas a body is to yield: for each line with the prefix `data: ` whose
\* payload parses to a frame carrying content, that content, in frame order.
RECURSIVE ExpectedDeltas(_)
ExpectedDeltas(b) ==
    IF b = <<>> THEN <<>>
    ELSE LET l == Strip(Head(b))
             j == IF StartsWithPrefix(l) /\ Len(l) = Len(Prefix) + 1
                     THEN JsonLoads(l[Len(l)])
                     ELSE [t |-> "JSONDecodeError"]
         IN  (IF CarriesContent(j)
                 THEN <<j.v["choices"].v[1].v["delta"].v["content"]>>
                 ELSE <<>>) \o ExpectedDeltas(Tail(b))

\* C10: for every body of text lines the deltas yielded are exactly those of
\* the lines read so far, in frame order, each once, and the decoder itself
\* never ends the sequence with an error: it terminates when the body does.
C10_YieldsExactlyTheDeltas ==
    (\A i \in 1..st_idx : Decodable(st_body[i]))
        => /\ st_yielded = ExpectedDeltas(SubSeq(st_body, 1, st_idx))
           /\ st_pc = "raised" => st_exc \in {"aiohttp.ClientError", "RuntimeError",
                                               "asyncio.TimeoutError"}
\* The line is a data frame whose payload is no JSON document.
IsMalformedFrame(l) ==
    /\ Decodable(l)
    /\ StartsWithPrefix(Strip(l))
    /\ Payload(Strip(l)) # <<DoneToken>>
    /\ LoadsData(Payload(Strip(l))).t = "JSONDecodeError"

\* The generator was ended by an exception of the decoder itself.
DecoderRaised == st_pc = "raised" /\ st_exc # "aiohttp.ClientError"

\* C11: a data frame whose payload is not valid JSON raises nothing and yields
\* nothing, and the frames read after it are decoded as if it were not there:
\* the deltas yielded are those of the valid frames read, in order.
C11_MalformedFrameIsSkipped ==
    \A i \in 1..st_idx :
        IsMalformedFrame(st_body[i])
            => /\ st_idx = i => ~DecoderRaised
               /\ st_yielded = ExpectedDeltas(SubSeq(st_body, 1, st_idx))

\* C11 witness: `data: {not json` was read, then a valid frame, whose delta
\* is the only one yielded.
C11_Witness ==
    /\ st_idx = 2
    /\ st_body[1] = Frame(TokMalformed)
    /\ st_body[2] = Frame(TokHi)
    /\ st_yielded = <<JStr("Hi")>>
    /\ st_pc = "reading"

\* The line is a data frame that parses, but to a value without a first
\* choice's delta content.
IsContentlessFrame(l) ==
    /\ Decodable(l)
    /\ StartsWithPrefix(Strip(l))
    /\ Payload(Strip(l)) # <<DoneToken>>
    /\ LoadsData(Payload(Strip(l))).t # "JSONDecodeError"
    /\ ~CarriesContent(LoadsData(Payload(Strip(l))))

\* C12: a parsed frame without extractable content (no choices, empty choices,
\* no delta, null delta, delta without content, not an object) emits nothing,
\* raises nothing, and the decoder goes on with the next frame.
C12_ContentlessFrameIsSkipped ==
    \A i \in 1..st_idx :
        IsContentlessFrame(st_body[i])
            => /\ st_idx = i => ~DecoderRaised
               /\ st_yielded = ExpectedDeltas(SubSeq(st_body, 1, st_idx))

\* The connection was lost after the stream had started.
MidStreamFailure ==
    /\ st_pc = "raised"
    /\ Len(outcomes) = 2
    /\ outcomes[1].kind = "http"
    /\ outcomes[2].kind = "connection"
    /\ Len(st_yielded) >= 1

\* C13: when the connection fails mid-stream the consumer holds exactly the
\* deltas of the lines read so far, in order, and the sequence fails with the
\* library's ConnectionError.
C13_MidStreamFailureIsConnectionError ==
    MidStreamFailure
        => /\ st_yielded = ExpectedDeltas(SubSeq(st_body, 1, st_idx))
           /\ st_exc = "titangpt.exceptions.ConnectionError"

(***************************************************************************)
(* Properties of the life of a client (checked under SpecLife)             *)
(***************************************************************************)
\* A close() call, that of the scoped form included.
CloseStep == closes' = closes + 1

\* C14: close() is idempotent: every close() call, the first, a repeated one
\* and one on a client whose session was never opened, raises no error and
\* creates no session; a close() that finds no open session leaves the
\* session as it is, and no close() leaves a session open.
C14_CloseIsIdempotent ==
    [][CloseStep =>
         /\ life_exc' = ""
         /\ created' = created
         /\ session' # "open"
         /\ session # "open" => session' = session]_vars

\* close() was called twice on the one session the client ever had.
C14_Witness ==
    /\ closes = 2
    /\ created = 1
    /\ session = "closed"
    /\ life_exc = ""
    /\ scope = "out"

AsyncCallStarts(c) == variant = "async" /\ ~InFlight(c) /\ c_pc'[c] = "sending"

C17_ScopedFormClosesOnEveryPath ==
    /\ [](scope = "in" => as_target = "self")
    /\ [][scope = "in" /\ scope' = "exited" =>
            /\ exit_path' \in ExitPaths
            /\ session' = "closed"]_vars

\* The body was left by the error of a call and the session is closed.
C17_Witness ==
    /\ scope = "exited"
    /\ exit_path = "call_error"
    /\ as_target = "self"
    /\ session = "closed"
    /\ \E c \in Calls : c_pc[c] = "raised"

\* The constructor found no key: none in its argument, none in the environment.
NoKeyResolvable ==
    /\ constructed # "no"
    /\ ~Truthy(init_args.key)
    /\ ~Truthy(init_args.env)

\* C18: constructing a client when no API key is resolvable fails with a
\* Configuration error before any session is created, and no client object
\* exists without a non-empty API key, for both clients.
C18_NoKeyConstructionFails ==
    /\ constructed = "ok" => Truthy(api_key)
    /\ NoKeyResolvable =>
         /\ constructed = "failed"
         /\ life_exc = "titangpt.exceptions.ConfigurationError"
         /\ created = 0

\* C19: every request sent carries Authorization: Bearer <the client's API
\* key>, whatever headers the caller passed for the call.
C19_AuthorizationIsNotOverridable ==
    wire # NoWire => wire.auth = Bearer(api_key)

\* C20: a rotation of the key through set_api_key on the existing default
\* client raises nothing and leaves the client and its session headers
\* with the new key, so that later requests carry it.
C20_RotationTakesEffect ==
    rotation.done /\ rotation.key # ResolveKey(init_args.key, init_args.env) =>
        /\ rotation.exc = ""
        /\ api_key = rotation.key
        /\ session_auth = Bearer(rotation.key)

(***************************************************************************)
(* Properties of the functions of one request (checked under SpecPure)     *)
(***************************************************************************)
\* u is b without its trailing slashes, one slash, e without its leading ones.
IsJoined(u, b, e) ==
    \E i \in 1..Len(b), j \in 1..Len(e) :
       /\ b[i] # Slash
       /\ \A k \in (i + 1)..Len(b) : b[k] = Slash
       /\ e[j] # Slash
       /\ \A k \in 1..(j - 1) : e[k] = Slash
       /\ u = SubSeq(b, 1, i) \o <<Slash>> \o SubSeq(e, j, Len(e))

\* C21: the URL of a request is the whole base URL and the endpoint path with
\* exactly one slash between them, whatever slashes end the one and begin
\* the other, in both clients.
C21_UrlJoinsWithOneSlash ==
    pure_fn \in {"TitanGPTClient.url", "AsyncClient.url"} =>
        IsJoined(pure_out, pure_in.base_url, pure_in.endpoint)

\* C22: an attempt is sent with the timeout of the call when the caller
\* passed one and with the client's configured timeout otherwise, and the
\* call does not fail for having passed one.
C22_EffectiveTimeout ==
    pure_fn \in {"TitanGPTClient.timeout", "AsyncClient.timeout",
                 "AsyncClient.chat_completion.timeout"} =>
        /\ pure_out.sent
        /\ pure_out.exc = ""
        /\ pure_out.timeout = IF pure_in.timeout_arg = Omitted
                                 THEN pure_in.timeout ELSE pure_in.timeout_arg

(***************************************************************************)
(* Properties of concurrent calls (checked under SpecLife)                 *)
(***************************************************************************)
\* What the i-th entry of the log of a call is when its attempts are in
\* order: request, outcome, sleep, request, outcome, sleep, ...
InOrder(i) == <<"send", "outcome", "slept">>[((i - 1) % 3) + 1]

\* C23: in every call the attempts are strictly ordered: a request is sent
\* only as the first thing of the call or after the outcome of the request
\* before it and the whole sleep after that outcome, so no call has two
\* requests in flight, whatever the other calls of the client do.
C23_AttemptsAreOrdered ==
    \A c \in Calls : \A i \in 1..Len(c_log[c]) :
        /\ c_log[c][i].e = InOrder(i)
        /\ c_log[c][i].a = (i - 1) \div 3

\* Call 1 sent its second request after its first outcome and its sleep,
\* while call 2 had a request in flight.
C23_Witness ==
    /\ variant = "async"
    /\ Len(c_log[1]) = 4
    /\ c_pc[1] = "awaiting"
    /\ c_pc[2] = "awaiting"

\* Call c takes a step.
Stepped(c) == c_pc'[c] # c_pc[c] \/ c_log'[c] # c_log[c]
Ended(c) == c_pc[c] \in {"returned", "raised"}
LastEvent(c) == c_log[c][Len(c_log[c])]

\* C24: calls in flight together on one AsyncClient resolve each once and
\* each with the outcome of its own request: a call that has ended has a
\* result, which is what the last outcome delivered to it makes; a call in
\* flight has none; and a step of one call (its retry, its failure) changes
\* nothing of another call.
C24_CallsResolveIndependently ==
    /\ [](variant = "async" =>
            \A c \in Calls :
               /\ InFlight(c) => c_res[c] = NoResult
               /\ Ended(c) => c_res[c] # NoResult
               /\ Ended(c) /\ c_log[c] # <<>> /\ LastEvent(c).e = "outcome"
                     => c_res[c] = AsyncTerminal(LastEvent(c).o))
    /\ [][variant = "async" =>
            \A c, d \in Calls :
               c # d /\ Stepped(c) =>
                  /\ c_pc'[d] = c_pc[d]
                  /\ c_res'[d] = c_res[d]
                  /\ c_log'[d] = c_log[d]]_vars

\* Two calls that shared the session ended differently: call 1 returned the
\* body of its 200, call 2 raised for the 503 of its second attempt.
C24_Witness ==
    /\ variant = "async"
    /\ created = 1
    /\ c_pc[1] = "returned"
    /\ c_res[1] = Return(ParseBody(BodyObject))
    /\ c_pc[2] = "raised"
    /\ c_res[2] = Raise("RuntimeError", 503)
    /\ Len(c_log[2]) = 5

Suspended(c) == c_pc[c] \in {"awaiting", "sleeping"}

\* C25: in the asynchronous client a call that waits for a response or in
\* a backoff sleep does not hold up another call: while it is suspended the
\* other call can start, send, and receive; a call whose request is answered
\* 200 completes while the first is still suspended.
C25_SuspendedCallDoesNotBlock ==
    variant = "async" /\ constructed = "ok" =>
        \A a, b \in Calls :
           a # b /\ Suspended(a) =>
              /\ ~InFlight(b) => ENABLED LifeAsyncBegin(b)
              /\ c_pc[b] = "sending" => ENABLED LifeAsyncSend(b)
              /\ c_pc[b] = "sleeping" => ENABLED LifeAsyncWake(b)
              /\ c_pc[b] = "awaiting" =>
                    ENABLED (/\ LifeAsyncReceive(b)
                             /\ c_pc'[b] = "returned"
                             /\ c_pc'[a] = c_pc[a])

\* Call 1 is in its backoff sleep and call 2, started meanwhile, awaits.
C25_Witness ==
    /\ variant = "async"
    /\ c_pc[1] = "sleeping"
    /\ c_pc[2] = "awaiting"
    /\ Len(c_log[2]) = 1

(***************************************************************************)
(* The two clients compared (checked under Spec)                           *)
(***************************************************************************)
\* AsyncClient._request run over a given sequence of outcomes, from the pass
\* of the loop with index a: the requests it sends and how it ends. It is
\* "pending" when it sends a request for which the sequence has no outcome.
RECURSIVE AsyncReplay(_, _, _)
AsyncReplay(n, seq, a) ==
    IF a >= n THEN [sent |-> a, class |-> "none"]
    ELSE IF a + 1 > Len(seq) THEN [sent |-> a + 1, class |-> "pending"]
    ELSE IF AsyncRetryable(seq[a + 1]) /\ AsyncAttemptsRemain(a, n)
            THEN AsyncReplay(n, seq, a + 1)
    ELSE [sent |-> a + 1,
          class |-> IF AsyncTerminal(seq[a + 1]).kind = "return" THEN "success"
                    ELSE IF AsyncRetryable(seq[a + 1]) THEN "exhausted"
                    ELSE "immediate"]

\* TitanGPTClient._request run over a given sequence of outcomes, from its
\* i-th request with t retries left.
RECURSIVE SyncReplay(_, _, _, _)
SyncReplay(m, t, seq, i) ==
    IF i > Len(seq) THEN [sent |-> i, class |-> "pending"]
    ELSE IF SyncRetryable(m, seq[i])
            THEN IF t - 1 < 0
                    THEN [sent |-> i, class |-> "exhausted"]
                    ELSE SyncReplay(m, t - 1, seq, i + 1)
    ELSE [sent |-> i,
          class |-> IF SyncTerminal(seq[i]).kind = "return" THEN "success"
                    ELSE "immediate"]

\* C26: the two clients implement one contract: with the same max_retries
\* (at least 1) and the same outcomes of the attempts (status codes or
\* timeouts), the sequence of outcomes that takes one client to the end of
\* its call takes the other to the end of its call too, with as many
\* requests sent and in the same class of outcome.
C26_ClientsAgree ==
    /\ CallEnded
    /\ max_retries >= 1
    /\ \A i \in 1..Len(outcomes) : outcomes[i].kind \in {"http", "timeout"}
    => /\ AsyncReplay(max_retries, outcomes, 0).sent = sent
       /\ SyncReplay(method, max_retries, outcomes, 1).sent = sent
       /\ AsyncReplay(max_retries, outcomes, 0).class
             = SyncReplay(method, max_retries, outcomes, 1).class

\* The body is a JSON object.
IsObjectBody(b) == ParseBody(b).t = "obj"

\* What the caller of a successful call is to get when it reads field k of a
\* body b: the value of the field, or the not-found condition of the way it
\* reads (KeyError by key, AttributeError by attribute), never a default.
ExpectedRead(b, k, notFound) ==
    IF k \in DOMAIN ParseBody(b).v
       THEN [kind |-> "value", value |-> ParseBody(b).v[k]]
       ELSE [kind |-> notFound, value |-> JNull]

ExpectedText(b) ==
    LET v == ParseBody(b)
    IN CASE v.t = "obj" /\ "error" \in DOMAIN v.v /\ v.v["error"].t = "obj"
              /\ "message" \in DOMAIN v.v["error"].v -> v.v["error"].v["message"].v
         [] v.t = "obj" /\ "error" \notin DOMAIN v.v /\ "message" \in DOMAIN v.v
              -> v.v["message"].v
         [] v.t = "obj" /\ "error" \notin DOMAIN v.v /\ "message" \notin DOMAIN v.v
              /\ "detail" \in DOMAIN v.v -> v.v["detail"].v
         [] OTHER -> b

\* C28: the message of the error raised for a failed response has the text
\* taken from the body in the order error.message, message, detail, raw
\* text, and is "Error code: <status>" when the body is empty; also for an
\* error raised after the retries.
C28_MessageComesFromTheBody ==
    pure_fn \in {"TitanGPTClient.message", "AsyncClient.message"} =>
        IF ExpectedText(pure_in.body) # ""
           THEN pure_out.text = ExpectedText(pure_in.body)
           ELSE /\ pure_out.lead = "Error code: "
                /\ pure_out.status = pure_in.status

\* C29: get_client() called with a key and without base_url returns a client
\* whose base URL is the default endpoint.
C29_GetClientUsesDefaultBaseUrl ==
    /\ pure_fn = "get_client"
    /\ pure_in.key # Omitted
    /\ ~pure_in.base_url_given
    => /\ pure_out.kind = "return"
       /\ pure_out.base_url = DefaultBaseUrl

\* C30: an operation on one client instance, a close() or a failed call among
\* them, leaves the session state (unopened, open, closed) and the
\* configuration of every other instance as they were.
C30_InstancesAreIndependent ==
    [][\A j \in ClientIds :
          j # f_actor'.id =>
             /\ SessionOf(j)' = SessionOf(j)
             /\ f_client'[j].config = f_client[j].config]_vars

\* Instance 1 was just closed after a failed call while instance 2, an
\* asynchronous client of another configuration, holds an open session.
C30_Witness ==
    /\ f_actor = [id |-> 1, op |-> "close"]
    /\ f_client[1].last = "raise"
    /\ SessionOf(1) = "closed"
    /\ f_client[2].variant = "async"
    /\ SessionOf(2) = "open"
    /\ f_client[2].config # f_client[1].config

\* C31: AsyncClient._request never ends without an outcome: for every
\* max_retries, 0 included, a call that has ended sent at least one request
\* and either returns the parsed response of its last attempt or raises.
C31_CallEndsWithAnOutcome ==
    (variant = "async" /\ CallEnded)
        => /\ sent >= 1
           /\ result.kind \in {"return", "raise"}
           /\ result.kind = "return"
                 => /\ LastOutcome.kind = "http"
                    /\ result.value = AiohttpJson(LastOutcome.body)

\* The sleeps a call of max_retries = n may make.
MaxSleeps(n) == IF n >= 1 THEN n - 1 ELSE 0

\* C32: a call of AsyncClient._request makes at most max_retries attempts and
\* at most max_retries - 1 sleeps, never sleeps after its final attempt, and,
\* its attempts and sleeps ending, reaches a result or an error.
C32_CallTerminates ==
    /\ [](variant = "async"
            => /\ sent <= max_retries
               /\ Len(delays) <= MaxSleeps(max_retries)
               /\ pc = "sleeping" => sent < max_retries)
    /\ (variant = "async" /\ ~CallEnded) ~> CallEnded

\* A call that used all its attempts and all its sleeps has raised.
C32_Witness ==
    /\ variant = "async"
    /\ max_retries = TermRetries
    /\ pc = "raised"
    /\ sent = max_retries
    /\ Len(delays) = max_retries - 1

\* Call c came out of a backoff sleep and found its session closed, and
\* ended for it.
EndedOnClosedSession(c) ==
    /\ c_pc[c] = "raised"
    /\ c_res[c] = Raise("RuntimeError", 0)
    /\ Len(c_log[c]) >= 1
    /\ LastEvent(c).e = "slept"

ClosedWhileSleeping(c) ==
    /\ variant = "async"
    /\ c_pc[c] = "sleeping" \/ (c_pc[c] = "sending" /\ c_attempt[c] >= 1)
    /\ c_sid[c] # created \/ session # "open"

Sends(c) == c_pc[c] = "sending" /\ c_pc'[c] = "awaiting"

\* C34: all attempts of one call of AsyncClient._request go out with the
\* headers and over the session fixed when the call started: a call takes
\* the client's key when it starts, keeps its headers and its session while
\* it is in flight whatever is assigned to api_key meanwhile, and sends every
\* request with them.
C34_AttemptsShareWhatTheCallFixed ==
    [][\A c \in Calls :
          /\ AsyncCallStarts(c) => c_auth'[c] = Bearer(api_key')
          /\ (InFlight(c) /\ InFlight(c)')
                => /\ c_auth'[c] = c_auth[c]
                   /\ c_hdr'[c] = c_hdr[c]
                   /\ c_sid'[c] = c_sid[c]
          /\ Sends(c) => /\ wire'.auth = c_auth[c]
                         /\ wire'.sid = c_sid[c]]_vars

\* A later attempt of call 1 is on the wire with the key the call started
\* with although the client has another key by now, and call 2, started
\* after the change, has the new one.
C34_Witness ==
    /\ c_pc[1] = "awaiting"
    /\ c_attempt[1] >= 1
    /\ wire.auth = c_auth[1]
    /\ c_auth[1] # Bearer(api_key)
    /\ InFlight(2)
    /\ c_auth[2] = Bearer(api_key)

\* C35: a call whose last response has a status outside 200..299 ends in an
\* error in both clients, never in a result handed to the caller.
C35_NonSuccessStatusNeverReturns ==
    (CallEnded /\ Len(outcomes) >= 1 /\ LastOutcome.kind = "http"
        /\ LastOutcome.status \notin 200..299)
        => /\ pc = "raised"
           /\ result.kind = "raise"

\* C36: chat_completion_stream sends exactly one request per stream and
\* never sends it again: a stream that has left its start has one request
\* behind it, one answered with a status other than 200 (429 and 5xx
\* included) has raised with nothing yielded, and no step of a started
\* stream sends a request or takes it back to its start.
C36_StreamSendsOneRequest ==
    /\ [](st_pc # "idle"
            => /\ sent = 1
               /\ (outcomes[1].kind = "http" /\ outcomes[1].status # 200)
                     => /\ st_pc = "raised"
                        /\ st_exc = "RuntimeError"
                        /\ st_yielded = <<>>
                        /\ st_idx = 0)
    /\ [][st_pc # "idle" => (sent' = sent /\ st_pc' # "idle")]_vars

\* The one request of a stream was answered 503 and the stream has raised.
C36_Witness ==
    /\ st_pc = "raised"
    /\ sent = 1
    /\ outcomes = <<Http(503, BodyEmpty)>>
    /\ st_yielded = <<>>

\* C37: a call that ends in an error leaves the client as it was before the
\* call; an AsyncClient has no session before its first call, so it has none
\* after a first call that failed.
C37_FailedCallLeavesClientAsBefore ==
    (variant = "async" /\ pc = "raised") => session = "none"

\* C37, amended: a call that ends in an error leaves the configuration of
\* the client unchanged and keeps the session it sent on open: no step of a
\* call after its start changes max_retries, the key or the session, and
\* when the call has raised the session is open for a following call. The
\* session is not the one from before the call when the call opened it.
C37_FailedCallKeepsItsSession ==
    /\ [](pc = "raised" => session = "open")
    /\ [][pc # "idle"
            => /\ session' = session
               /\ max_retries' = max_retries
               /\ api_key' = api_key
               /\ variant' = variant]_vars

\* An asynchronous call has used up its attempts on retryable failures, and
\* a blocking one likewise.
C37_Witness ==
    /\ pc = "raised"
    /\ max_retries >= 2
    /\ sent >= max_retries
    /\ RetryableFailure(LastOutcome)
    /\ session = "open"

\* C38: the default client of the module is a singleton: over any sequence
\* of get_client and set_api_key calls at most one TitanGPTClient is made,
\* every get_client call that returns gives that one instance, and once it
\* exists no call, whatever its api_key and base_url, changes it.
C38_DefaultClientIsASingleton ==
    /\ [](/\ m_made <= 1
          /\ m_client.id = m_made
          /\ (m_call.fn = "get_client" /\ m_call.kind = "return")
                => /\ m_call.id = 1
                   /\ m_call.id = m_client.id)
    /\ [][m_client.id # 0 => m_client' = m_client]_vars

\* get_client was called with another key and another base URL than the
\* default client has, and returned the default client.
C38_Witness ==
    /\ m_call.fn = "get_client"
    /\ m_call.kind = "return"
    /\ m_call.id = 1
    /\ m_client.api_key = KeyA
    /\ m_call.key = KeyB
    /\ m_call.base_url # JNull
    /\ RStrip(m_call.base_url.v) # m_client.base_url

====
